---- MODULE Spec2Model ----
(***************************************************************************)
(* Model of the device-connection resilience engine of the Python SDK:     *)
(* BaseAdapter (sdk/adapter.py) with its collection loop, the retry        *)
(* cursor, the DeviceState field and the start()/stop() coroutines.        *)
(*                                                                         *)
(* The adapter runs on one asyncio event loop.  A state of the model is a  *)
(* point at which every coroutine is suspended in an await; an action is   *)
(* the code one coroutine runs from the completion of its await to its     *)
(* next await.  Integrator hooks and the transport are the environment:    *)
(* each returns or raises, chosen nondeterministically.                    *)
(***************************************************************************)
EXTENDS Integers, Sequences, FiniteSets, TLC

\* ---------------------------------------------------------------- bounds
MaxCycles == 2          \* collection cycles started in one behaviour
MaxConnects == 5        \* connect_device invocations in one behaviour
MaxRetryLimit == 3      \* max_retries is drawn from 1..MaxRetryLimit and the default
MaxLog == 5             \* recorded prefix of the DeviceState history
MaxStarts == 2          \* start() calls in one behaviour of Lifecycle
MaxStops == 2           \* stop() calls in one behaviour of Lifecycle
MaxAttempt == 10        \* attempt numbers -2..MaxAttempt are given to next_delay in Backoff

\* ------------------------------------------------------- program constants
DefaultMaxRetries == 5

\* `base * (2**attempt)` converts the int 2**attempt to a float: Python raises
\* OverflowError for an int of 2**1024 or more
FloatMaxExp == 1024

\* Delays are in milliseconds, the jitter factor in hundredths.
Bases == {500, 1000, 2000, 10000}
MaxDelays == {1000, 5000, 60000}
Jitters == {0, 10, 20, 50, 100}
Attempts == (-2 .. MaxAttempt) \cup {FloatMaxExp - 1, FloatMaxExp, FloatMaxExp + 1}
\* random.random(), in quarters
Random == 0 .. 4

\* DeviceState values (models.py)
DISCONNECTED == "disconnected"
CONNECTING == "connecting"
CONNECTED == "connected"
RECONNECTING == "reconnecting"
ERROR == "error"
DeviceState == {DISCONNECTED, CONNECTING, CONNECTED, RECONNECTING, ERROR}

\* Exception classes a hook can raise (exceptions.py and builtin Exception)
HookErrors == {"DeviceConnectionError", "DeviceTimeoutError", "DeviceError", "Exception"}

\* The transport's exception classes (exceptions.py): SDKError subclasses
\* outside the DeviceError hierarchy
TransportErrors == {"ConnectionError", "PublishError"}

\* variant: every DeviceError is retried, the base class included
IsRetryable_AnyDeviceError(kind) ==
  kind \in {"DeviceError", "DeviceConnectionError", "DeviceTimeoutError"}

\* variant: PublishError is handled like a device connection failure
IsRetryable_WithPublishError(kind) ==
  kind \in {"DeviceConnectionError", "DeviceTimeoutError", "PublishError"}

\* isinstance(e, (DeviceConnectionError, DeviceTimeoutError))
IsRetryable(kind) == kind \in {"DeviceConnectionError", "DeviceTimeoutError"}

\* isinstance(e, DeviceError): the base class and its two subclasses
IsDeviceError(kind) == kind \in {"DeviceError", "DeviceConnectionError", "DeviceTimeoutError"}

\* What self._nc.publish can raise (nats.errors and builtins)
SendErrors == {"ConnectionClosedError", "TimeoutError", "Exception"}

\* The transport at a publish_asset_data call: not connected, connected with
\* a batch json.dumps rejects, connected
Links == {"down", "unencodable", "up"}

\* A publish_asset_data call: self.is_connected, whether self._nc.publish was
\* awaited, and the result ("pending" until it is known)
Published(connected, sent, res) == [connected |-> connected, sent |-> sent, result |-> res]
NoPublish == [connected |-> FALSE, sent |-> FALSE, result |-> "unset"]

\* An exception object: its class, the hook that raised it and the number of
\* that hook's invocation (the cycle for the per-cycle hooks).
Err(kind, hook, n) == [kind |-> kind, hook |-> hook, n |-> n]
NoError == Err("none", "none", 0)

CountedHooks == {"connect_device", "on_device_connected", "on_device_reconnected",
                 "on_device_disconnected", "disconnect_device", "on_start", "on_stop"}

VARIABLES
  device_state,      \* self._device_state
  device_connected,  \* self._device_connected
  retry_count,       \* self._retry_count
  max_retries,       \* self._max_retries
  running,           \* self._running
  pc,                \* the await the collection task (self._task) is suspended in
  frame,             \* the call stack of the collection task at that await
  error,             \* the argument of the latest on_device_disconnected call
  cancel,            \* self._task.cancel() was requested and not yet delivered
  result,            \* how the collection task ended
  mainpc,            \* position of the start() coroutine
  stoppc,            \* position of the stop() coroutine that found _running true
  outcome,           \* history: what the task's latest await produced
  failures,          \* history: connect_device calls that raised a retryable error
  cycle,             \* history: number of loop iterations begun
  calls,             \* history: invocations of each counted hook
  stateLog,          \* history: the first MaxLog values of DeviceState
  matched,           \* history: how many connect_device outcomes there were, while they
                     \*   are the first outcomes of ScenarioB; -1 once they differ from it
  streak,            \* history: connect_device calls that raised a retryable error since
                     \*   the latest one that returned
  awaited,           \* history: the await that produced outcome
  batch,             \* history: what collect returned in the current cycle
  published,         \* history: the publish_asset_data call of the current cycle: whether
                     \*   the transport was connected, whether it sent, how it ended
  publishes,         \* history: publish_asset_data invocations in the current cycle
  base,              \* self._backoff.base
  max_delay,         \* self._backoff.max_delay
  jitter,            \* self._backoff.jitter
  delay,             \* the latest next_delay call: its argument and what it returned or
                     \*   raised; in the collection task, the local `delay` of the backoff
  stopped_at,        \* history: where the task was suspended when stop() took effect
  stopped_connected, \* history: self._device_connected when stop() took effect
  stop_disconnect,   \* history: how stop()'s await of disconnect_device ended
  starts,            \* Lifecycle: position of each start() coroutine
  loops,             \* Lifecycle: status of the collection task each start() created
  cancels,           \* Lifecycle: tasks with a cancel() requested and not yet delivered
  task,              \* Lifecycle: self._task, 0 for None
  stops              \* Lifecycle: position of each stop() coroutine and the task it awaits

taskVars == <<device_state, device_connected, retry_count, pc, frame, error, result,
              outcome, failures, cycle, calls, stateLog, matched, streak, awaited,
              batch, publishes, published, delay>>
config == <<max_retries, base, max_delay, jitter>>
stopHist == <<stopped_at, stopped_connected, stop_disconnect>>
lifeVars == <<starts, loops, cancels, task, stops>>
vars == <<device_state, device_connected, retry_count, max_retries, running, pc, frame,
          error, cancel, result, mainpc, stoppc, outcome, failures, cycle, calls,
          stateLog, matched, streak, awaited, batch, publishes, published,
          base, max_delay, jitter, delay,
          stopped_at, stopped_connected, stop_disconnect, starts, loops, cancels, task, stops>>

\* The part of the state the collection task works on, as one record.
Cur == [device_state |-> device_state, device_connected |-> device_connected,
        retry_count |-> retry_count, pc |-> pc, frame |-> frame, error |-> error,
        result |-> result, outcome |-> outcome, failures |-> failures, cycle |-> cycle,
        calls |-> calls, stateLog |-> stateLog, matched |-> matched, streak |-> streak,
        awaited |-> awaited, batch |-> batch, publishes |-> publishes,
        published |-> published, delay |-> delay]

\* the same, once the task's await has produced o
Got(o) == [Cur EXCEPT !.outcome = o, !.awaited = pc]

Apply(s) ==
  /\ s.cycle <= MaxCycles
  /\ s.calls["connect_device"] <= MaxConnects
  /\ device_state' = s.device_state
  /\ device_connected' = s.device_connected
  /\ retry_count' = s.retry_count
  /\ pc' = s.pc
  /\ frame' = s.frame
  /\ error' = s.error
  /\ result' = s.result
  /\ outcome' = s.outcome
  /\ failures' = s.failures
  /\ cycle' = s.cycle
  /\ calls' = s.calls
  /\ stateLog' = s.stateLog
  /\ matched' = s.matched
  /\ streak' = s.streak
  /\ awaited' = s.awaited
  /\ batch' = s.batch
  /\ publishes' = s.publishes
  /\ published' = s.published
  /\ delay' = s.delay

\* ------------------------------------------------------------ the backoff
Min(a, b) == IF a <= b THEN a ELSE b
Max(a, b) == IF a >= b THEN a ELSE b

\* What a next_delay call left: its argument, and the value returned or the
\* exception raised.
Returned(att, d) == [attempt |-> att, value |-> d, raised |-> "none"]
Raised(att, kind) == [attempt |-> att, value |-> 0, raised |-> kind]
NoDelay == [attempt |-> 0, value |-> 0, raised |-> "unset"]

\* x * 2**e for x > 0, doubling e times; the doubling stops at the first value
\* that is cap or more, where min(_, cap) no longer depends on it
RECURSIVE Exponential(_, _, _)
Exponential(x, e, cap) ==
  IF e = 0 \/ x >= cap THEN x ELSE Exponential(2 * x, e - 1, cap)

\* random.uniform(a, b) == a + (b - a) * random.random()
Uniform(a, b, rnd) == a + ((b - a) * rnd) \div 4

\* variant: a negative attempt is not clamped, 2**attempt is then a fraction
next_delay_NoNegativeClamp(att, rnd) ==
  IF att >= FloatMaxExp
  THEN Raised(att, "OverflowError")
  ELSE LET d == IF att < 0
                THEN Min(base \div Exponential(1, -att, base), max_delay)
                ELSE Min(Exponential(base, att, max_delay), max_delay)
           jitter_amount == (d * jitter) \div 100
       IN IF jitter > 0
          THEN Returned(att, Max(0, Min(d + Uniform(-jitter_amount, jitter_amount, rnd),
                                        max_delay)))
          ELSE Returned(att, d)

\* BackoffStrategy.next_delay(attempt), with rnd the draw of random.random()
next_delay(att, rnd) ==
  LET a0 == IF att < 0 THEN 0 ELSE att
  IN IF a0 >= FloatMaxExp
     THEN Raised(att, "OverflowError")
     ELSE LET d == Min(Exponential(base, a0, max_delay), max_delay)
              jitter_amount == (d * jitter) \div 100
          IN IF jitter > 0
             THEN Returned(att, Max(0, Min(d + Uniform(-jitter_amount, jitter_amount, rnd),
                                           max_delay)))
             ELSE Returned(att, d)

\* ------------------------------------------------------------ the adapter

\* BaseAdapter._set_device_state
set_device_state(s, st) ==
  [s EXCEPT !.device_state = st,
            !.stateLog = IF Len(@) < MaxLog THEN Append(@, st) ELSE @]

\* `await self.<hook>()`: the task suspends in the hook
Invoke(s, hook) ==
  [s EXCEPT !.pc = hook,
            !.calls = IF hook \in CountedHooks THEN [@ EXCEPT ![hook] = @ + 1] ELSE @]

\* `await self.on_device_disconnected(error=e)`
InvokeDisconnected(s, e) == Invoke([s EXCEPT !.error = e], "on_device_disconnected")

\* _collect_loop: `await asyncio.sleep(self.collect_interval)`
Idle(s) == [s EXCEPT !.pc = "idle_sleep", !.frame = "loop"]

\* an exception leaves _collect_loop: the task ends with it
TaskRaised(s) == [s EXCEPT !.pc = "done", !.frame = "none", !.result = "raised"]

\* variant: the device is not marked disconnected before the hook is called
handle_device_error_KeepsConnected(s, e) ==
  IF IsRetryable(e.kind)
  THEN InvokeDisconnected(set_device_state([s EXCEPT !.frame = "loop.handle"], DISCONNECTED), e)
  ELSE Idle(s)

\* _handle_device_error up to its first await
handle_device_error(s, e) ==
  IF IsRetryable(e.kind)
  THEN InvokeDisconnected(
         set_device_state([s EXCEPT !.device_connected = FALSE, !.frame = "loop.handle"],
                          DISCONNECTED), e)
  ELSE Idle(s)

\* variant: the loop has no `except Exception` clause
LoopExcept_NoCatchAll(s, e) ==
  IF IsRetryable(e.kind) THEN handle_device_error(s, e) ELSE TaskRaised(s)

\* the except clauses of _collect_loop, for an exception raised in its try body
LoopExcept(s, e) ==
  IF IsRetryable(e.kind) THEN handle_device_error(s, e) ELSE Idle(s)

\* variant: _handle_device_error catches only the retryable subclasses
EnsureExit_NarrowCatch(s, e) ==
  IF s.frame = "loop.ensure"
  THEN LoopExcept(s, e)
  ELSE IF IsRetryable(e.kind) THEN Idle(s) ELSE TaskRaised(s)

\* an exception leaves _ensure_device_connected
EnsureExit(s, e) ==
  IF s.frame = "loop.ensure"
  THEN LoopExcept(s, e)
  ELSE IF IsDeviceError(e.kind) THEN Idle(s) ELSE TaskRaised(s)

\* variant: the loop goes from _ensure_device_connected straight to collect
EnsureReturn_SkipsHealth(s) ==
  IF s.frame = "loop.ensure"
  THEN Invoke([s EXCEPT !.frame = "loop"], "collect")
  ELSE Idle(s)

\* _ensure_device_connected returns normally
EnsureReturn(s) ==
  IF s.frame = "loop.ensure"
  THEN Invoke([s EXCEPT !.frame = "loop"], "check_device_health")
  ELSE Idle(s)

\* variant: the first attempt does not set Connecting
EnsureWhile_NoConnecting(s) ==
  IF s.retry_count < max_retries /\ running
  THEN Invoke(IF s.retry_count = 0 THEN s ELSE set_device_state(s, RECONNECTING),
              "connect_device")
  ELSE EnsureReturn(s)

\* variant: a retry sets Connecting as the first attempt does
EnsureWhile_AlwaysConnecting(s) ==
  IF s.retry_count < max_retries /\ running
  THEN Invoke(set_device_state(s, CONNECTING), "connect_device")
  ELSE EnsureReturn(s)

\* the while loop of _ensure_device_connected, from its test to connect_device
EnsureWhile(s) ==
  IF s.retry_count < max_retries /\ running
  THEN Invoke(set_device_state(s, IF s.retry_count = 0 THEN CONNECTING ELSE RECONNECTING),
              "connect_device")
  ELSE EnsureReturn(s)

\* variant: no early return when the device is connected
ensure_device_connected_NoEarlyReturn(s, from) ==
  EnsureWhile([s EXCEPT !.frame = from])

\* a call of _ensure_device_connected from the frame `from`
ensure_device_connected(s, from) ==
  LET t == [s EXCEPT !.frame = from]
  IN IF s.device_connected THEN EnsureReturn(t) ELSE EnsureWhile(t)

\* variant: the exhaustion test is `>` instead of `>=`
EnsureExcept_OffByOne(s, e) ==
  IF IsRetryable(e.kind)
  THEN LET t == [s EXCEPT !.retry_count = @ + 1]
       IN IF t.retry_count > max_retries
          THEN InvokeDisconnected(set_device_state(t, ERROR), e)
          ELSE [t EXCEPT !.pc = "backoff_sleep"]
  ELSE EnsureExit(s, e)

\* variant: on_device_disconnected is called without the error
EnsureExcept_NoErrorArg(s, e) ==
  IF IsRetryable(e.kind)
  THEN LET t == [s EXCEPT !.retry_count = @ + 1]
       IN IF t.retry_count >= max_retries
          THEN InvokeDisconnected(set_device_state(t, ERROR), NoError)
          ELSE [t EXCEPT !.pc = "backoff_sleep"]
  ELSE EnsureExit(s, e)

\* the except clause of _ensure_device_connected, for an exception raised in its try body
EnsureExcept(s, e) ==
  IF IsRetryable(e.kind)
  THEN LET t == [s EXCEPT !.retry_count = @ + 1]
       IN IF t.retry_count >= max_retries
          THEN InvokeDisconnected(set_device_state(t, ERROR), e)
          ELSE [t EXCEPT !.pc = "backoff_sleep"]
  ELSE EnsureExit(s, e)

\* variant: the retry count is not reset on success
ConnectSucceeded_NoReset(s) ==
  LET t == set_device_state([s EXCEPT !.device_connected = TRUE], CONNECTED)
  IN IF t.retry_count = 0
     THEN Invoke(t, "on_device_connected")
     ELSE Invoke(t, "on_device_reconnected")

\* _ensure_device_connected after connect_device returned
ConnectSucceeded(s) ==
  LET t == set_device_state([s EXCEPT !.device_connected = TRUE, !.retry_count = 0],
                            CONNECTED)
  IN IF t.retry_count = 0
     THEN Invoke(t, "on_device_connected")
     ELSE Invoke(t, "on_device_reconnected")

\* the head of the while loop of _collect_loop
LoopTop(s) ==
  IF running
  THEN ensure_device_connected([s EXCEPT !.cycle = @ + 1, !.batch = "none",
                                         !.publishes = 0, !.published = NoPublish],
                               "loop.ensure")
  ELSE [s EXCEPT !.pc = "done", !.frame = "none", !.result = "returned"]

\* Scenario B of the specification: the outcomes of the first connect_device calls
ScenarioB == <<"DeviceConnectionError", "DeviceConnectionError", "ok">>

\* connect_device returned or raised: the history of its outcomes
LogConnect(s, o) ==
  [s EXCEPT !.matched = IF @ = Len(ScenarioB) THEN @
                        ELSE IF @ >= 0 /\ ScenarioB[@ + 1] = o THEN @ + 1
                        ELSE -1,
            !.failures = IF IsRetryable(o) THEN @ + 1 ELSE @,
            !.streak = IF IsRetryable(o) THEN @ + 1 ELSE IF o = "ok" THEN 0 ELSE @]

\* `delay = self._backoff.next_delay(self._retry_count - 1)` before the sleep
BackoffDelay(s, rnd) ==
  IF s.pc = "backoff_sleep"
  THEN [s EXCEPT !.delay = next_delay(s.retry_count - 1, rnd)]
  ELSE s

\* start() or stop() awaits one of the counted hooks
Called(s, hook) == [s EXCEPT !.calls[hook] = @ + 1]

\* variant: an exception of the send leaves publish_asset_data as it is
PublishFailure_Unwrapped(raw) == raw

\* `except Exception as e: raise PublishError(...) from e`
PublishFailure(raw) == "PublishError"

\* `await self._client.publish_asset_data(data)` up to its first await: with
\* the transport not connected, or a batch json.dumps rejects, it raises
\* PublishError at once; otherwise it awaits self._nc.publish
Publishing(s, link) ==
  LET t == [s EXCEPT !.publishes = @ + 1]
  IN CASE link = "down" ->
            LoopExcept([t EXCEPT !.published = Published(FALSE, FALSE, "PublishError")],
                       Err("PublishError", "publish", t.cycle))
       [] link = "unencodable" ->
            LoopExcept([t EXCEPT !.published =
                                   Published(TRUE, FALSE, PublishFailure("TypeError"))],
                       Err(PublishFailure("TypeError"), "publish", t.cycle))
       [] OTHER -> Invoke([t EXCEPT !.published = Published(TRUE, TRUE, "pending")],
                          "publish")

\* --------------------------------------------------- the collection task
Runs(p) == pc = p /\ ~cancel
LoopStep == UNCHANGED <<config, running, cancel, mainpc, stoppc, stopHist, lifeVars>>

\* first step of the task created by start()
TaskStart ==
  /\ Runs("created")
  /\ Apply(LoopTop(Got("ok")))
  /\ LoopStep

\* connect_device returns or raises (an error of the transport's classes
\* among the others)
ConnectDevice ==
  /\ Runs("connect_device")
  /\ \E o \in {"ok"} \cup HookErrors \cup TransportErrors, rnd \in Random :
        Apply(IF o = "ok"
              THEN ConnectSucceeded(LogConnect(Got(o), o))
              ELSE BackoffDelay(EnsureExcept(LogConnect(Got(o), o),
                                             Err(o, "connect_device",
                                                 calls["connect_device"])),
                                rnd))
  /\ LoopStep

\* on_device_connected / on_device_reconnected returns or raises
ConnectedEvent ==
  /\ pc \in {"on_device_connected", "on_device_reconnected"}
  /\ ~cancel
  /\ \E o \in {"ok"} \cup HookErrors, rnd \in Random :
        Apply(IF o = "ok"
              THEN EnsureReturn(Got(o))
              ELSE BackoffDelay(EnsureExcept(Got(o), Err(o, pc, calls[pc])), rnd))
  /\ LoopStep

\* on_device_disconnected returns or raises
OnDeviceDisconnected ==
  /\ Runs("on_device_disconnected")
  /\ \E o \in {"ok"} \cup HookErrors :
       LET e == Err(o, "on_device_disconnected", calls["on_device_disconnected"])
       IN Apply(IF frame = "loop.handle"
                THEN IF o = "ok"
                     THEN ensure_device_connected(Got(o), "loop.handle.ensure")
                     ELSE TaskRaised(Got(o))
                ELSE IF o = "ok"
                     THEN EnsureExit(Got(o), Err("DeviceError", "ensure_device_connected", 0))
                     ELSE EnsureExit(Got(o), e))
  /\ LoopStep

\* the backoff sleep of _ensure_device_connected elapses
BackoffSleep ==
  /\ Runs("backoff_sleep")
  /\ Apply(EnsureWhile([Got("ok") EXCEPT !.delay = NoDelay]))
  /\ LoopStep

\* check_device_health returns or raises
CheckDeviceHealth ==
  /\ Runs("check_device_health")
  /\ \E o \in {"ok"} \cup HookErrors :
        Apply(IF o = "ok"
              THEN Invoke(Got(o), "collect")
              ELSE LoopExcept(Got(o), Err(o, "check_device_health", cycle)))
  /\ LoopStep

\* variant: the batch is published without the `if values` test
Collect_PublishesEmpty ==
  /\ Runs("collect")
  /\ \E o \in {"values", "empty"} \cup HookErrors, link \in Links :
        Apply(CASE o \in {"values", "empty"} -> Publishing([Got(o) EXCEPT !.batch = o], link)
                [] OTHER -> LoopExcept(Got(o), Err(o, "collect", cycle)))
  /\ LoopStep

\* collect returns a batch or raises
Collect ==
  /\ Runs("collect")
  /\ \E o \in {"values", "empty"} \cup HookErrors, link \in Links :
        Apply(CASE o = "values" -> Publishing([Got(o) EXCEPT !.batch = o], link)
                [] o = "empty" -> Idle([Got(o) EXCEPT !.batch = o])
                [] OTHER -> LoopExcept(Got(o), Err(o, "collect", cycle)))
  /\ LoopStep

\* self._nc.publish returns or raises, and with it publish_asset_data
\* returns or raises what the except clause makes of the exception
Publish ==
  /\ Runs("publish")
  /\ \E raw \in {"ok"} \cup SendErrors :
       LET o == IF raw = "ok" THEN "ok" ELSE PublishFailure(raw)
           s == [Got(o) EXCEPT !.published.result = o]
       IN Apply(IF o = "ok" THEN Idle(s) ELSE LoopExcept(s, Err(o, "publish", cycle)))
  /\ LoopStep

\* the idle sleep elapses and the next iteration begins
IdleSleep ==
  /\ Runs("idle_sleep")
  /\ Apply(LoopTop(Got("ok")))
  /\ LoopStep

\* CancelledError is thrown into the task at its await
Cancelled ==
  /\ cancel
  /\ pc \notin {"none", "done"}
  /\ pc' = "done"
  /\ frame' = "none"
  /\ result' = "cancelled"
  /\ cancel' = FALSE
  /\ outcome' = "CancelledError"
  /\ awaited' = pc
  /\ delay' = NoDelay
  /\ UNCHANGED <<device_state, device_connected, retry_count, config, running, error,
                 mainpc, stoppc, failures, cycle, calls, stateLog, matched, streak, batch,
                 publishes, published, stopHist, lifeVars>>

\* ---------------------------------------------------------------- start()
\* self._client.connect() returns or raises ConnectionError
StartClientConnect ==
  /\ mainpc = "client_connect"
  /\ \E ok \in BOOLEAN :
       /\ mainpc' = IF ok THEN "on_start" ELSE "raised"
       /\ Apply(IF ok THEN Called(Cur, "on_start") ELSE Cur)
  /\ UNCHANGED <<config, running, cancel, stoppc, stopHist, lifeVars>>

\* on_start() returns (the task is created) or raises
StartOnStart ==
  /\ mainpc = "on_start"
  /\ \E ok \in BOOLEAN :
       IF ok
       THEN /\ running' = TRUE
            /\ pc' = "created"
            /\ frame' = "loop"
            /\ mainpc' = "await_task"
       ELSE /\ mainpc' = "raised"
            /\ UNCHANGED <<running, pc, frame>>
  /\ UNCHANGED <<device_state, device_connected, retry_count, config, error, cancel,
                 result, stoppc, outcome, failures, cycle, calls, stateLog, matched, streak,
                 awaited, batch, publishes, published, delay, stopHist, lifeVars>>

\* `await self._task` in start() completes
StartAwaitTask ==
  /\ mainpc = "await_task"
  /\ pc = "done"
  /\ mainpc' = IF result = "raised" THEN "raised" ELSE "returned"
  /\ UNCHANGED <<taskVars, config, running, cancel, stoppc, stopHist, lifeVars>>

\* ----------------------------------------------------------------- stop()
\* variant: stop() clears _running but does not cancel the task
StopCall_NoCancel ==
  /\ running
  /\ stoppc = "idle"
  /\ running' = FALSE
  /\ cancel' = FALSE
  /\ stoppc' = "await_task"
  /\ stopped_at' = pc
  /\ stopped_connected' = device_connected
  /\ UNCHANGED stop_disconnect
  /\ UNCHANGED <<taskVars, config, mainpc, lifeVars>>

\* stop() is called while _running is true
StopCall ==
  /\ running
  /\ stoppc = "idle"
  /\ running' = FALSE
  /\ cancel' = (pc # "done")
  /\ stoppc' = "await_task"
  /\ stopped_at' = pc
  /\ stopped_connected' = device_connected
  /\ UNCHANGED stop_disconnect
  /\ UNCHANGED <<taskVars, config, mainpc, lifeVars>>

\* variant: a stop() of a disconnected adapter goes to the transport
\* disconnect without on_stop
StopAwaitTask_SkipsOnStop ==
  /\ stoppc = "await_task"
  /\ pc = "done"
  /\ IF result = "raised"
     THEN stoppc' = "raised" /\ UNCHANGED taskVars
     ELSE /\ stoppc' = IF device_connected THEN "disconnect_device" ELSE "client_disconnect"
          /\ Apply(IF device_connected THEN Called(Cur, "disconnect_device") ELSE Cur)
  /\ UNCHANGED <<config, running, cancel, mainpc, stopHist, lifeVars>>

\* `await self._task` in stop() completes: CancelledError is swallowed, any
\* other exception of the task leaves stop(); then disconnect_device is
\* invoked if the device is connected
StopAwaitTask ==
  /\ stoppc = "await_task"
  /\ pc = "done"
  /\ IF result = "raised"
     THEN stoppc' = "raised" /\ UNCHANGED taskVars
     ELSE /\ stoppc' = IF device_connected THEN "disconnect_device" ELSE "on_stop"
          /\ Apply(Called(Cur, IF device_connected THEN "disconnect_device" ELSE "on_stop"))
  /\ UNCHANGED <<config, running, cancel, mainpc, stopHist, lifeVars>>

\* disconnect_device returns or raises
StopDisconnectDevice_ClearsFlagOnError ==
  /\ stoppc = "disconnect_device"
  /\ \E ok \in BOOLEAN :
       /\ Apply(Called(IF ok
                       THEN set_device_state([Cur EXCEPT !.device_connected = FALSE],
                                             DISCONNECTED)
                       ELSE [Cur EXCEPT !.device_connected = FALSE],
                       "on_stop"))
       /\ stop_disconnect' = IF ok THEN "returned" ELSE "raised"
  /\ stoppc' = "on_stop"
  /\ UNCHANGED <<config, running, cancel, mainpc, stopped_at, stopped_connected, lifeVars>>

StopDisconnectDevice ==
  /\ stoppc = "disconnect_device"
  /\ \E ok \in BOOLEAN :
       /\ Apply(Called(IF ok
                       THEN set_device_state([Cur EXCEPT !.device_connected = FALSE],
                                             DISCONNECTED)
                       ELSE Cur,
                       "on_stop"))
       /\ stop_disconnect' = IF ok THEN "returned" ELSE "raised"
  /\ stoppc' = "on_stop"
  /\ UNCHANGED <<config, running, cancel, mainpc, stopped_at, stopped_connected, lifeVars>>

\* on_stop returns or raises
StopOnStop ==
  /\ stoppc = "on_stop"
  /\ \E ok \in BOOLEAN : stoppc' = IF ok THEN "client_disconnect" ELSE "raised"
  /\ UNCHANGED <<taskVars, config, running, cancel, mainpc, stopHist, lifeVars>>

\* self._client.disconnect() completes
StopClientDisconnect ==
  /\ stoppc = "client_disconnect"
  /\ stoppc' = "done"
  /\ UNCHANGED <<taskVars, config, running, cancel, mainpc, stopHist, lifeVars>>

\* ------------------------------------------------------------------------
\* BaseAdapter.__init__, followed by an optional assignment of _max_retries
\* and the call of start()
Init ==
  /\ device_state = DISCONNECTED
  /\ device_connected = FALSE
  /\ retry_count = 0
  /\ max_retries \in (1..MaxRetryLimit) \cup {DefaultMaxRetries}
  /\ running = FALSE
  /\ pc = "none"
  /\ frame = "none"
  /\ error = NoError
  /\ cancel = FALSE
  /\ result = "none"
  /\ mainpc = "client_connect"
  /\ stoppc = "idle"
  /\ outcome = "none"
  /\ failures = 0
  /\ cycle = 0
  /\ calls = [h \in CountedHooks |-> 0]
  /\ stateLog = <<DISCONNECTED>>
  /\ matched = 0
  /\ streak = 0
  /\ awaited = "none"
  /\ batch = "none"
  /\ publishes = 0
  /\ published = NoPublish
  /\ base = 1000
  /\ max_delay = 60000
  /\ jitter = 10
  /\ delay = NoDelay
  /\ stopped_at = "none"
  /\ stopped_connected = FALSE
  /\ stop_disconnect = "unset"
  /\ starts = [k \in 1..MaxStarts |-> "none"]
  /\ loops = [k \in 1..MaxStarts |-> "none"]
  /\ cancels = {}
  /\ task = 0
  /\ stops = [j \in 1..MaxStops |-> [pc |-> "none", awaits |-> 0]]

Next ==
  \/ TaskStart
  \/ ConnectDevice
  \/ ConnectedEvent
  \/ OnDeviceDisconnected
  \/ BackoffSleep
  \/ CheckDeviceHealth
  \/ Collect
  \/ Publish
  \/ IdleSleep
  \/ Cancelled
  \/ StartClientConnect
  \/ StartOnStart
  \/ StartAwaitTask
  \/ StopCall
  \/ StopAwaitTask
  \/ StopDisconnectDevice
  \/ StopOnStop
  \/ StopClientDisconnect

Spec == Init /\ [][Next]_vars

\* ------------------------------------------------------------------------
\* Backoff: a BackoffStrategy of any configuration, and next_delay called on
\* it with any attempt number.
BackoffInit ==
  /\ base \in Bases
  /\ max_delay \in MaxDelays
  /\ jitter \in Jitters
  /\ delay = NoDelay
  /\ max_retries = DefaultMaxRetries
  /\ device_state = DISCONNECTED
  /\ device_connected = FALSE
  /\ retry_count = 0
  /\ running = FALSE
  /\ pc = "none"
  /\ frame = "none"
  /\ error = NoError
  /\ cancel = FALSE
  /\ result = "none"
  /\ mainpc = "client_connect"
  /\ stoppc = "idle"
  /\ outcome = "none"
  /\ failures = 0
  /\ cycle = 0
  /\ calls = [h \in CountedHooks |-> 0]
  /\ stateLog = <<DISCONNECTED>>
  /\ matched = 0
  /\ streak = 0
  /\ awaited = "none"
  /\ batch = "none"
  /\ publishes = 0
  /\ published = NoPublish
  /\ stopped_at = "none"
  /\ stopped_connected = FALSE
  /\ stop_disconnect = "unset"
  /\ starts = [k \in 1..MaxStarts |-> "none"]
  /\ loops = [k \in 1..MaxStarts |-> "none"]
  /\ cancels = {}
  /\ task = 0
  /\ stops = [j \in 1..MaxStops |-> [pc |-> "none", awaits |-> 0]]

\* a call of next_delay
NextDelay ==
  /\ \E att \in Attempts, rnd \in Random : delay' = next_delay(att, rnd)
  /\ UNCHANGED <<device_state, device_connected, retry_count, config, running, pc, frame,
                 error, cancel, result, mainpc, stoppc, outcome, failures, cycle, calls,
                 stateLog, matched, streak, awaited, batch, publishes, published,
                 stopHist, lifeVars>>

Backoff == BackoffInit /\ [][NextDelay]_vars

\* ------------------------------------------------------------------------
\* Lifecycle: start() and stop() called any number of times on one adapter.
\* Each start() creates its own collection task.  A task's connection
\* attempts are taken one by one, on the retry cursor all tasks share; the
\* rest of a cycle is one step here (Spec above takes it hook by hook for a
\* single task).
Starts == 1..MaxStarts
Stops == 1..MaxStops
Alive == {"created", "connect_device", "backoff_sleep", "cycle", "sleep"}
Ended == {"returned", "cancelled", "raised"}

\* the start() calls that are before `self._running = True`
Starting == {k \in Starts : starts[k] \in {"client_connect", "on_start"}}

LifeRest == UNCHANGED <<config, pc, frame, error, cancel, result, mainpc, stoppc, outcome,
                        failures, cycle, calls, stateLog, matched, streak, awaited, batch,
                        publishes, published, delay, stopHist>>
LifeStep == LifeRest /\ UNCHANGED <<device_state, retry_count>>

\* start() is called: signal handlers, then `await self._client.connect()`
LStartCall(k) ==
  /\ starts[k] = "none"
  /\ starts' = [starts EXCEPT ![k] = "client_connect"]
  /\ UNCHANGED <<running, device_connected, loops, cancels, task, stops>>
  /\ LifeStep

\* self._client.connect() returns or raises ConnectionError
LStartClientConnect(k) ==
  /\ starts[k] = "client_connect"
  /\ \E ok \in BOOLEAN : starts' = [starts EXCEPT ![k] = IF ok THEN "on_start" ELSE "raised"]
  /\ UNCHANGED <<running, device_connected, loops, cancels, task, stops>>
  /\ LifeStep

\* on_start() returns (_running is set, the task is created and assigned to
\* self._task) or raises
LStartOnStart(k) ==
  /\ starts[k] = "on_start"
  /\ \E ok \in BOOLEAN :
       IF ok
       THEN /\ running' = TRUE
            /\ loops' = [loops EXCEPT ![k] = "created"]
            /\ task' = k
            /\ starts' = [starts EXCEPT ![k] = "await_task"]
       ELSE /\ starts' = [starts EXCEPT ![k] = "raised"]
            /\ UNCHANGED <<running, loops, task>>
  /\ UNCHANGED <<device_connected, cancels, stops>>
  /\ LifeStep

\* `await self._task` in start() completes
LStartAwaitTask(k) ==
  /\ starts[k] = "await_task"
  /\ loops[k] \in Ended
  /\ starts' = [starts EXCEPT ![k] = IF loops[k] = "raised" THEN "raised" ELSE "returned"]
  /\ UNCHANGED <<running, device_connected, loops, cancels, task, stops>>
  /\ LifeStep

\* the while loop of _ensure_device_connected in task k, from its test to
\* connect_device; when the test fails the cycle goes on
LEnsureWhile(k) ==
  IF retry_count < max_retries /\ running
  THEN /\ loops' = [loops EXCEPT ![k] = "connect_device"]
       /\ device_state' = (IF retry_count = 0 THEN CONNECTING ELSE RECONNECTING)
  ELSE /\ loops' = [loops EXCEPT ![k] = "cycle"]
       /\ UNCHANGED device_state

\* the `while self._running` test of _collect_loop, and the call of
\* _ensure_device_connected that begins the cycle
LoopTest(k) ==
  /\ IF ~running
     THEN loops' = [loops EXCEPT ![k] = "returned"] /\ UNCHANGED device_state
     ELSE IF device_connected
          THEN loops' = [loops EXCEPT ![k] = "cycle"] /\ UNCHANGED device_state
          ELSE LEnsureWhile(k)
  /\ UNCHANGED <<running, device_connected, retry_count, starts, cancels, task, stops>>
  /\ LifeRest

\* connect_device returns in task k, or raises a retryable or another error
LConnectDevice(k) ==
  /\ loops[k] = "connect_device"
  /\ k \notin cancels
  /\ \E o \in {"ok", "DeviceConnectionError", "Exception"} :
       CASE o = "ok" ->
              /\ device_connected' = TRUE
              /\ retry_count' = 0
              /\ device_state' = CONNECTED
              /\ loops' = [loops EXCEPT ![k] = "cycle"]
         [] IsRetryable(o) ->
              /\ retry_count' = retry_count + 1
              /\ IF retry_count' >= max_retries
                 THEN /\ device_state' = ERROR
                      /\ loops' = [loops EXCEPT ![k] = "sleep"]
                 ELSE /\ loops' = [loops EXCEPT ![k] = "backoff_sleep"]
                      /\ UNCHANGED device_state
              /\ UNCHANGED device_connected
         [] OTHER ->
              /\ loops' = [loops EXCEPT ![k] = "sleep"]
              /\ UNCHANGED <<device_connected, retry_count, device_state>>
  /\ UNCHANGED <<running, starts, cancels, task, stops>>
  /\ LifeRest

\* the backoff sleep of task k elapses
LBackoffSleep(k) ==
  /\ loops[k] = "backoff_sleep"
  /\ k \notin cancels
  /\ LEnsureWhile(k)
  /\ UNCHANGED <<running, device_connected, retry_count, starts, cancels, task, stops>>
  /\ LifeRest

\* the task runs for the first time
LTaskStart(k) ==
  /\ loops[k] = "created"
  /\ k \notin cancels
  /\ LoopTest(k)

\* the rest of a cycle runs to the idle sleep, or a retryable error of the
\* health check or of collect makes _handle_device_error mark the device
\* disconnected, or an exception leaves the loop
LCycle(k) ==
  /\ loops[k] = "cycle"
  /\ k \notin cancels
  /\ \/ /\ loops' = [loops EXCEPT ![k] = "sleep"]
        /\ UNCHANGED <<device_connected, device_state>>
     \/ /\ loops' = [loops EXCEPT ![k] = "sleep"]
        /\ device_connected' = FALSE
        /\ device_state' = DISCONNECTED
     \/ /\ loops' = [loops EXCEPT ![k] = "raised"]
        /\ UNCHANGED <<device_connected, device_state>>
  /\ UNCHANGED <<running, retry_count, starts, cancels, task, stops>>
  /\ LifeRest

\* the idle sleep elapses
LIdleSleep(k) ==
  /\ loops[k] = "sleep"
  /\ k \notin cancels
  /\ LoopTest(k)

\* CancelledError is thrown into the task at its await
LCancelled(k) ==
  /\ k \in cancels
  /\ loops[k] \in Alive
  /\ loops' = [loops EXCEPT ![k] = "cancelled"]
  /\ cancels' = cancels \ {k}
  /\ UNCHANGED <<running, device_connected, starts, task, stops>>
  /\ LifeStep

\* stop() is called: it returns at once unless _running is true ("ignored"
\* records that a start() was then between its entry and the assignment of
\* _running); otherwise it clears _running, cancels self._task and awaits it
LStopCall(j) ==
  /\ stops[j].pc = "none"
  /\ IF ~running
     THEN /\ stops' = [stops EXCEPT ![j].pc = IF Starting # {} THEN "ignored" ELSE "returned"]
          /\ UNCHANGED <<running, cancels>>
     ELSE /\ running' = FALSE
          /\ IF task = 0
             THEN /\ stops' = [stops EXCEPT ![j].pc = IF device_connected
                                                       THEN "disconnect_device"
                                                       ELSE "on_stop"]
                  /\ UNCHANGED cancels
             ELSE /\ stops' = [stops EXCEPT ![j] = [pc |-> "await_task", awaits |-> task]]
                  /\ cancels' = IF loops[task] \in Alive THEN cancels \cup {task} ELSE cancels
  /\ UNCHANGED <<device_connected, starts, loops, task>>
  /\ LifeStep

\* `await self._task` in stop() completes
LStopAwaitTask(j) ==
  /\ stops[j].pc = "await_task"
  /\ loops[stops[j].awaits] \in Ended
  /\ stops' = [stops EXCEPT ![j].pc = IF loops[stops[j].awaits] = "raised" THEN "raised"
                                      ELSE IF device_connected THEN "disconnect_device"
                                      ELSE "on_stop"]
  /\ UNCHANGED <<running, device_connected, starts, loops, cancels, task>>
  /\ LifeStep

\* disconnect_device returns or raises
LStopDisconnectDevice(j) ==
  /\ stops[j].pc = "disconnect_device"
  /\ \E ok \in BOOLEAN :
       IF ok
       THEN device_connected' = FALSE /\ device_state' = DISCONNECTED
       ELSE UNCHANGED <<device_connected, device_state>>
  /\ stops' = [stops EXCEPT ![j].pc = "on_stop"]
  /\ UNCHANGED <<running, retry_count, starts, loops, cancels, task>>
  /\ LifeRest

\* on_stop returns or raises
LStopOnStop(j) ==
  /\ stops[j].pc = "on_stop"
  /\ \E ok \in BOOLEAN :
       stops' = [stops EXCEPT ![j].pc = IF ok THEN "client_disconnect" ELSE "raised"]
  /\ UNCHANGED <<running, device_connected, starts, loops, cancels, task>>
  /\ LifeStep

\* self._client.disconnect() completes
LStopClientDisconnect(j) ==
  /\ stops[j].pc = "client_disconnect"
  /\ stops' = [stops EXCEPT ![j].pc = "returned"]
  /\ UNCHANGED <<running, device_connected, starts, loops, cancels, task>>
  /\ LifeStep

LNext ==
  \/ \E k \in Starts : LStartCall(k)
  \/ \E k \in Starts : LStartClientConnect(k)
  \/ \E k \in Starts : LStartOnStart(k)
  \/ \E k \in Starts : LStartAwaitTask(k)
  \/ \E k \in Starts : LTaskStart(k)
  \/ \E k \in Starts : LConnectDevice(k)
  \/ \E k \in Starts : LBackoffSleep(k)
  \/ \E k \in Starts : LCycle(k)
  \/ \E k \in Starts : LIdleSleep(k)
  \/ \E k \in Starts : LCancelled(k)
  \/ \E j \in Stops : LStopCall(j)
  \/ \E j \in Stops : LStopAwaitTask(j)
  \/ \E j \in Stops : LStopDisconnectDevice(j)
  \/ \E j \in Stops : LStopOnStop(j)
  \/ \E j \in Stops : LStopClientDisconnect(j)

Lifecycle == Init /\ [][LNext]_vars

\* Lifecycle on a running event loop: a coroutine that can take a step takes
\* it (awaited hooks and the transport return or raise, sleeps elapse, a
\* requested cancellation is delivered).  Calls of start() and stop() are the
\* caller's and are not forced.
LStartStep(k) ==
  \/ LStartClientConnect(k)
  \/ LStartOnStart(k)
  \/ LStartAwaitTask(k)

LTaskStep(k) ==
  \/ LTaskStart(k)
  \/ LConnectDevice(k)
  \/ LBackoffSleep(k)
  \/ LCycle(k)
  \/ LIdleSleep(k)
  \/ LCancelled(k)

LStopStep(j) ==
  \/ LStopAwaitTask(j)
  \/ LStopDisconnectDevice(j)
  \/ LStopOnStop(j)
  \/ LStopClientDisconnect(j)

LifecycleFair ==
  /\ Init
  /\ [][LNext]_vars
  /\ \A k \in Starts : WF_vars(LStartStep(k)) /\ WF_vars(LTaskStep(k))
  /\ \A j \in Stops : WF_vars(LStopStep(j))

\* ------------------------------------------------------------------------
\* Vocabulary of the properties

EnsureFrames == {"loop.ensure", "loop.handle.ensure"}

\* the collection task took a step
TaskStep == pc' # pc \/ calls' # calls \/ cycle' # cycle

\* connect_device invocations that have returned or raised
Completed == calls["connect_device"] - (IF pc = "connect_device" THEN 1 ELSE 0)

\* every connect_device invocation so far raised a retryable error
AlwaysFailed == failures = Completed

\* connect_device returns/raises counted as successes
Successes == calls["on_device_connected"] + calls["on_device_reconnected"]

IsPrefix(a, b) == Len(a) <= Len(b) /\ \A i \in 1..Len(a) : a[i] = b[i]

\* C1: DeviceState becomes Connected only in the step in which connect_device
\* returns, and the state it leaves is the Connecting or Reconnecting that was
\* set for that attempt; it never goes from Disconnected or Error to Connected.
C1_ConnectedOnlyViaConnecting ==
  [][device_state' = CONNECTED /\ (device_state # CONNECTED \/ stateLog' # stateLog)
       => pc = "connect_device" /\ device_state \in {CONNECTING, RECONNECTING}]_vars

C1_Witness ==
  /\ device_state = CONNECTED
  /\ pc = "on_device_connected"
  /\ Len(stateLog) >= 5
  /\ SubSeq(stateLog, 1, 5) = <<DISCONNECTED, CONNECTING, CONNECTED, DISCONNECTED, CONNECTING>>

\* C2: connect_device is only ever invoked with retry count < max_retries, and
\* the step in which the retry count reaches max_retries sets state Error and
\* invokes on_device_disconnected.
C2_RetryBelowMax ==
  /\ [](pc = "connect_device" => retry_count < max_retries)
  /\ [][retry_count' >= max_retries /\ retry_count < max_retries
          => device_state' = ERROR /\ pc' = "on_device_disconnected"
             /\ calls'["on_device_disconnected"] = calls["on_device_disconnected"] + 1]_vars
  /\ [][calls'["connect_device"] # calls["connect_device"]
          => retry_count < max_retries /\ retry_count' < max_retries]_vars

C2_Witness ==
  /\ retry_count = max_retries
  /\ max_retries = DefaultMaxRetries
  /\ device_state = ERROR
  /\ pc = "on_device_disconnected"

\* C3 (as claimed): when a cycle begins after retries were exhausted (state
\* Error, device not connected, adapter running), connect_device is invoked.
C3_ReconnectAfterExhaustion ==
  [][pc = "idle_sleep" /\ device_state = ERROR /\ ~device_connected /\ running
       /\ cycle' = cycle + 1
       => pc' = "connect_device"]_vars

\* C4 (as claimed): once the exhaustion has been surfaced (state Error) the
\* retry count is 0 when the cycle is in its idle suspension.
C4_RetryCountResetAfterExhaustion ==
  (pc = "idle_sleep" /\ device_state = ERROR) => retry_count = 0

\* C5: while every connect_device call of a fresh adapter has raised a retryable
\* error, fewer than max_retries calls leave the state different from Error and
\* on_device_disconnected uninvoked; the max_retries-th failure makes the state
\* Error and invokes on_device_disconnected once, with that last error; no
\* further call is made.
C5_ExhaustionAfterMaxRetries ==
  AlwaysFailed =>
    /\ Completed <= max_retries
    /\ Completed < max_retries
         => device_state # ERROR /\ calls["on_device_disconnected"] = 0
    /\ Completed = max_retries
         => /\ calls["on_device_disconnected"] >= 1
            /\ pc # "connect_device"
            /\ calls["on_device_disconnected"] = 1
                 => /\ device_state = ERROR
                    /\ error.hook = "connect_device"
                    /\ error.n = max_retries
                    /\ IsRetryable(error.kind)
                    /\ pc = "on_device_disconnected" => outcome = error.kind

C5_Witness ==
  /\ AlwaysFailed
  /\ max_retries = DefaultMaxRetries
  /\ Completed = max_retries
  /\ pc = "on_device_disconnected"
  /\ calls["on_device_disconnected"] = 1
  /\ device_state = ERROR

\* C6: when the terminal on_device_disconnected of an exhausted connection
\* attempt returns, the task goes to the idle suspension (it does not end), and
\* when an idle suspension elapses while the adapter runs a new cycle begins.
C6_ExhaustionKeepsLoop ==
  /\ [][pc = "on_device_disconnected" /\ frame \in EnsureFrames /\ TaskStep
          /\ outcome' = "ok"
          => pc' = "idle_sleep" /\ result' = "none"]_vars
  /\ [][pc = "idle_sleep" /\ TaskStep /\ outcome' = "ok" /\ running
          => cycle' = cycle + 1 /\ pc' # "done" /\ result' = "none"]_vars

C6_Witness ==
  /\ cycle = 2
  /\ retry_count = max_retries
  /\ calls["connect_device"] = max_retries
  /\ AlwaysFailed
  /\ running
  /\ pc = "check_device_health"

\* C7 (as claimed): once a connection has succeeded on_device_connected has been
\* invoked exactly once: for the first success only, every later success
\* invoking on_device_reconnected.
C7_ConnectedHookOnlyFirst ==
  Successes >= 1 => calls["on_device_connected"] = 1

\* C8 (as claimed): with max_retries = 2 and connect_device raising
\* DeviceConnectionError on attempts 1 and 2 and returning on attempt 3, the
\* DeviceState history is Disconnected, Connecting, Reconnecting, Connected,
\* with on_device_reconnected invoked once and on_device_connected not at all.
C8_ScenarioB ==
  (max_retries = 2 /\ matched >= 0 /\ Completed = matched
     /\ (matched = Len(ScenarioB) => pc \in {"on_device_connected", "on_device_reconnected"}))
  => /\ IsPrefix(stateLog, <<DISCONNECTED, CONNECTING, RECONNECTING, CONNECTED>>)
     /\ calls["on_device_connected"] = 0
     /\ matched = Len(ScenarioB)
          => /\ stateLog = <<DISCONNECTED, CONNECTING, RECONNECTING, CONNECTED>>
             /\ calls["on_device_reconnected"] = 1

\* C9: while the connected/reconnected event hook runs, device_connected is
\* true, the retry count is 0 and DeviceState is Connected.
C9_EventHookSeesConnected ==
  pc \in {"on_device_connected", "on_device_reconnected"}
    => device_connected /\ retry_count = 0 /\ device_state = CONNECTED

C9_Witness ==
  /\ pc \in {"on_device_connected", "on_device_reconnected"}
  /\ calls["connect_device"] = 3
  /\ failures = 2
  /\ outcome = "ok"

\* the DeviceState before the latest recorded change was Connected
WasConnected ==
  /\ Len(stateLog) < MaxLog
  /\ Len(stateLog) >= 2
  /\ stateLog[Len(stateLog) - 1] = CONNECTED

\* C10 (as claimed): a retryable check_device_health failure while Connected
\* marks the device disconnected, sets Disconnected, invokes
\* on_device_disconnected with that error, and connect_device is not invoked
\* before the idle suspension of that cycle.
C10_NoReconnectBeforeIdle ==
  /\ [][pc = "check_device_health" /\ device_state = CONNECTED /\ TaskStep
          /\ IsRetryable(outcome')
          => /\ ~device_connected' /\ device_state' = DISCONNECTED
             /\ pc' = "on_device_disconnected"
             /\ error' = Err(outcome', "check_device_health", cycle)]_vars
  /\ [][pc = "on_device_disconnected" /\ frame = "loop.handle" /\ WasConnected
          /\ error.hook = "check_device_health"
          => pc' # "connect_device"]_vars

\* C10 (amended): a retryable check_device_health failure while Connected marks
\* the device disconnected, sets Disconnected and invokes on_device_disconnected
\* with that error; when that hook returns, connect_device is invoked at once,
\* in the same cycle, unless the retry count has reached max_retries.
C10_ImmediateReconnect ==
  /\ [](pc = "check_device_health" /\ device_state = CONNECTED
          => device_connected /\ retry_count = 0)
  /\ [][pc = "check_device_health" /\ device_state = CONNECTED /\ TaskStep
          /\ IsRetryable(outcome')
          => /\ ~device_connected' /\ device_state' = DISCONNECTED
             /\ pc' = "on_device_disconnected" /\ frame' = "loop.handle"
             /\ calls'["on_device_disconnected"] = calls["on_device_disconnected"] + 1
             /\ retry_count' = 0
             /\ error' = Err(outcome', "check_device_health", cycle)]_vars
  /\ [][pc = "on_device_disconnected" /\ frame = "loop.handle" /\ TaskStep
          /\ outcome' = "ok"
          => /\ cycle' = cycle
             /\ IF retry_count < max_retries
                THEN pc' = "connect_device" /\ device_state' \in {CONNECTING, RECONNECTING}
                ELSE pc' = "idle_sleep"]_vars

C10_Witness ==
  /\ pc = "connect_device"
  /\ frame = "loop.handle.ensure"
  /\ error.hook = "check_device_health"
  /\ error.n = cycle
  /\ Len(stateLog) >= 5
  /\ SubSeq(stateLog, 1, 5) = <<DISCONNECTED, CONNECTING, CONNECTED, DISCONNECTED, CONNECTING>>

\* ------------------------------------------------------------------------
\* the hooks awaited by the collection task, and the three notification hooks
LoopHooks == {"connect_device", "on_device_connected", "on_device_reconnected",
              "on_device_disconnected", "check_device_health", "collect", "publish"}
EventHooks == {"on_device_connected", "on_device_reconnected", "on_device_disconnected"}
NonRetryable == {"DeviceError", "Exception"}

\* C11: a non-retryable error (DeviceError or Exception) raised by
\* connect_device, check_device_health or collect ends the cycle: the task
\* goes straight to the idle sleep and the retry count keeps its value.
C11_NonRetryableEndsCycle ==
  [][(/\ pc \in {"connect_device", "check_device_health", "collect"}
      /\ TaskStep
      /\ outcome' \in NonRetryable)
       => (pc' = "idle_sleep" /\ retry_count' = retry_count)]_vars

\* C12: a non-device error raised by any hook the task awaits, the three
\* notification hooks included, never ends the collection task: the task
\* goes on to the idle sleep.
C12_NonDeviceErrorAbsorbed ==
  [][(pc \in LoopHooks /\ TaskStep /\ outcome' \in {"Exception", "PublishError"})
       => (pc' = "idle_sleep" /\ result' = "none")]_vars

\* C13: an error of any kind raised by a notification hook does not
\* increment the retry count, starts no backoff sleep and no further
\* connect_device call, and leaves DeviceState as it is.
C13_EventHookFailureIsNoConnectionFailure ==
  [][(pc \in EventHooks /\ TaskStep /\ outcome' \in HookErrors)
       => (/\ retry_count' = retry_count
           /\ device_state' = device_state
           /\ calls'["connect_device"] = calls["connect_device"]
           /\ pc' # "backoff_sleep")]_vars

\* C14: when collect raises a non-device error, DeviceState,
\* device_connected and the retry count keep their values, no hook is
\* invoked (no connect_device in particular) and the task goes to the idle
\* sleep of the same cycle.
C14_CollectNonDeviceError ==
  [][(pc = "collect" /\ TaskStep /\ outcome' = "Exception")
       => (/\ device_state' = device_state
           /\ device_connected' = device_connected
           /\ retry_count' = retry_count
           /\ calls' = calls
           /\ cycle' = cycle
           /\ pc' = "idle_sleep")]_vars

\* collect raised Exception while the device was connected; the task sleeps
C14_Witness ==
  /\ pc = "idle_sleep"
  /\ awaited = "collect"
  /\ outcome = "Exception"
  /\ device_connected
  /\ device_state = CONNECTED

\* C15: a non-retryable error raised by connect_device, check_device_health
\* or collect changes no state: the raising step leaves DeviceState,
\* device_connected and the retry count alone, and when connect_device
\* raises it, DeviceState after the cycle is what it was before the cycle
\* (stated for the first cycle, which begins in Disconnected).
C15_OtherErrorKeepsState ==
  /\ [][(/\ pc \in {"connect_device", "check_device_health", "collect"}
         /\ TaskStep
         /\ outcome' \in NonRetryable)
          => (/\ device_state' = device_state
              /\ device_connected' = device_connected
              /\ retry_count' = retry_count)]_vars
  /\ []((/\ cycle = 1
         /\ calls["connect_device"] = 1
         /\ pc = "idle_sleep"
         /\ awaited = "connect_device"
         /\ outcome \in NonRetryable)
          => device_state = DISCONNECTED)

\* stop() is past its disconnect_device step, or was left by an exception
StopPastDisconnect == stoppc \in {"on_stop", "client_disconnect", "done", "raised"}

\* C16: a stop() that finds the device connected invokes disconnect_device
\* exactly once, whether or not it cancels a cycle in mid-execution (further
\* stop() calls return at once); a stop() that finds no connection does not
\* invoke it.
C16_DisconnectExactlyOnce ==
  /\ calls["disconnect_device"] <= 1
  /\ StopPastDisconnect
       => calls["disconnect_device"] = (IF stopped_connected THEN 1 ELSE 0)

\* the two suspensions of the collection task
Sleeps == {"backoff_sleep", "idle_sleep"}

\* C17: when stop() takes effect while the task is suspended in the backoff
\* sleep or in the idle sleep, the task leaves the sleep by cancellation and
\* awaits nothing else: no connect_device, check_device_health, collect or
\* publish follows, no notification hook either; stop() goes on to
\* disconnect_device only if the device is connected, then to on_stop.
C17_StopDuringSleep ==
  /\ [](stopped_at \in Sleeps
          => /\ pc \in {stopped_at, "done"}
             /\ pc = "done" => result = "cancelled"
             /\ stoppc = "disconnect_device" => stopped_connected)
  /\ [][(stopped_at \in Sleeps)
          => (/\ cycle' = cycle
              /\ \A h \in CountedHooks \ {"disconnect_device", "on_stop"} :
                    calls'[h] = calls[h]
              /\ (stoppc' # stoppc /\ stoppc = "await_task")
                   => stoppc' = (IF stopped_connected THEN "disconnect_device" ELSE "on_stop")
              /\ (stoppc' # stoppc /\ stoppc = "disconnect_device") => stoppc' = "on_stop")]_vars

\* stop() interrupted the backoff sleep and has reached on_stop after
\* disconnecting a connected device
C17_Witness ==
  /\ stopped_at = "backoff_sleep"
  /\ stopped_connected
  /\ stoppc = "on_stop"
  /\ result = "cancelled"
  /\ calls["disconnect_device"] = 1

\* the same for the idle sleep of a disconnected device
C17_WitnessIdle ==
  /\ stopped_at = "idle_sleep"
  /\ ~stopped_connected
  /\ stoppc = "on_stop"
  /\ result = "cancelled"

\* collection tasks that are inside the body of a cycle and not cancelled
InCycle ==
  {k \in Starts : loops[k] \in {"connect_device", "backoff_sleep", "cycle"} /\ k \notin cancels}

\* C18: whatever start() and stop() calls are made on the adapter, at most
\* one collection task exists that has not ended, and so at most one cycle
\* is in progress.
C18_OneCollectionTask ==
  /\ Cardinality({k \in Starts : loops[k] \in Alive /\ k \notin cancels}) <= 1
  /\ Cardinality(InCycle) <= 1

\* C19: the steps of a cycle begin in the order of the loop body, each one
\* only when the one before it has returned: check_device_health is invoked
\* by the step in which _ensure_device_connected returns to the loop,
\* collect by the step in which check_device_health returns, publish by the
\* step in which collect returns values, all within the same cycle; and a
\* new cycle begins only out of the idle sleep of the cycle before it (out
\* of the task's creation for the first).
C19_StepsInOrder ==
  [][/\ (pc' = "check_device_health" /\ TaskStep)
          => (\/ /\ pc \in {"created", "idle_sleep"}
                 /\ cycle' = cycle + 1
              \/ /\ pc \in {"on_device_connected", "on_device_reconnected"}
                 /\ frame = "loop.ensure"
                 /\ outcome' = "ok"
                 /\ cycle' = cycle)
     /\ (pc' = "collect" /\ TaskStep)
          => (pc = "check_device_health" /\ outcome' = "ok" /\ cycle' = cycle)
     /\ (pc' = "publish" /\ TaskStep)
          => (pc = "collect" /\ outcome' = "values" /\ cycle' = cycle)
     /\ (pc' = "idle_sleep" /\ TaskStep) => (pc # "idle_sleep" /\ cycle' = cycle)
     /\ (cycle' # cycle)
          => (/\ pc = (IF cycle = 0 THEN "created" ELSE "idle_sleep")
              /\ cycle' = cycle + 1
              /\ pc' \in {"connect_device", "check_device_health"})]_vars

\* the second cycle went through all five steps: publish returned and the
\* task is in the idle sleep
C19_Witness ==
  /\ cycle = 2
  /\ pc = "idle_sleep"
  /\ awaited = "publish"
  /\ outcome = "ok"

\* C20: when publish_asset_data raises PublishError, DeviceState,
\* device_connected and the retry count keep their values, no hook is
\* invoked (no reconnect), the task goes to the idle sleep of the same
\* cycle, and when the sleep elapses the next cycle begins: with the health
\* check at once if the device is connected.
C20_PublishFailure ==
  /\ [][(\/ pc = "publish" /\ TaskStep /\ outcome' = "PublishError"
         \/ pc = "collect" /\ TaskStep /\ published'.result = "PublishError")
          => (/\ device_state' = device_state
              /\ device_connected' = device_connected
              /\ retry_count' = retry_count
              /\ calls' = calls
              /\ cycle' = cycle
              /\ result' = "none"
              /\ pc' = "idle_sleep")]_vars
  /\ [][(/\ pc = "idle_sleep"
         /\ awaited = "publish"
         /\ outcome = "PublishError"
         /\ TaskStep
         /\ outcome' = "ok")
          => (/\ cycle' = cycle + 1
              /\ result' = "none"
              /\ pc' \in {"connect_device", "check_device_health"}
              /\ device_connected => (pc' = "check_device_health" /\ calls' = calls))]_vars

\* publish raised PublishError while the device was connected; the task
\* sleeps
C20_Witness ==
  /\ pc = "idle_sleep"
  /\ awaited = "publish"
  /\ outcome = "PublishError"
  /\ device_connected
  /\ device_state = CONNECTED
  /\ retry_count = 0

\* C21: in each cycle publish_asset_data is invoked exactly once if collect
\* returned a non-empty batch, and not at all if it returned an empty batch
\* or was not reached or raised; the invocation is made by the step in
\* which collect returns.
C21_PublishOncePerBatch ==
  /\ [](publishes = (IF batch = "values" THEN 1 ELSE 0))
  /\ [][(pc = "collect" /\ TaskStep)
          => (/\ batch' = (IF outcome' \in {"values", "empty"} THEN outcome' ELSE "none")
              /\ publishes' = (IF outcome' = "values" THEN 1 ELSE 0)
              /\ (pc' = "publish") => (outcome' = "values")
              /\ cycle' = cycle)]_vars
  /\ [][(pc # "collect" /\ batch' # batch) => (batch' = "none" /\ cycle' = cycle + 1)]_vars
  /\ [][(pc' = "publish" /\ TaskStep) => pc = "collect"]_vars

\* the second cycle collected a batch and published it once
C21_Witness ==
  /\ cycle = 2
  /\ pc = "idle_sleep"
  /\ batch = "values"
  /\ publishes = 1
  /\ awaited = "publish"

\* a cycle that ended without a batch and without a publish invocation
C21_WitnessNone ==
  /\ pc = "idle_sleep"
  /\ awaited = "check_device_health"
  /\ batch = "none"
  /\ publishes = 0

\* C22: on_start is invoked exactly once by start(), and on_stop exactly
\* once by the stop() that finds the adapter running, however many stop()
\* calls are made (the others return at once): a stop() that has ended has
\* invoked on_stop once.
C22_OnStartOnStopOnce ==
  /\ calls["on_start"] <= 1
  /\ calls["on_stop"] <= 1
  /\ running => calls["on_start"] = 1
  /\ stoppc = "idle" => calls["on_stop"] = 0
  /\ stoppc \in {"client_disconnect", "done", "raised"} => calls["on_stop"] = 1

\* C23: an error raised by connect_device increments the retry count if and
\* only if its class is DeviceConnectionError or DeviceTimeoutError; every
\* other class (the base DeviceError, Exception, the transport's
\* ConnectionError and PublishError) leaves the count as it is and starts no
\* backoff sleep.
C23_RetryableKinds ==
  [][(pc = "connect_device" /\ TaskStep /\ outcome' \in HookErrors \cup TransportErrors)
       => IF outcome' \in {"DeviceConnectionError", "DeviceTimeoutError"}
          THEN retry_count' = retry_count + 1
          ELSE retry_count' = retry_count /\ pc' # "backoff_sleep"]_vars

\* after one retryable failure and its backoff, connect_device raised the
\* base DeviceError: the count is still 1
C23_Witness ==
  /\ awaited = "connect_device"
  /\ outcome = "DeviceError"
  /\ calls["connect_device"] = 2
  /\ failures = 1
  /\ retry_count = 1
  /\ max_retries > 1

\* the same for a transport error
C23_WitnessTransport ==
  /\ awaited = "connect_device"
  /\ outcome \in TransportErrors
  /\ calls["connect_device"] = 2
  /\ failures = 1
  /\ retry_count = 1

\* and a DeviceTimeoutError counted as the second failure
C23_WitnessTimeout ==
  /\ awaited = "connect_device"
  /\ outcome = "DeviceTimeoutError"
  /\ pc = "backoff_sleep"
  /\ retry_count = 2

\* C24: while DeviceState is Connected, a cycle whose hooks return without
\* failure changes nothing: from the end of the idle sleep through the health
\* check, collect and publish to the next idle sleep, DeviceState stays
\* Connected, device_connected stays true, the retry count keeps its value
\* and no counted hook (connect_device and the notification hooks among them)
\* is invoked.
C24_ConnectedCycleIsIdempotent ==
  /\ [](device_state = CONNECTED => device_connected)
  /\ [][(/\ device_state = CONNECTED
         /\ TaskStep
         /\ \/ pc = "idle_sleep" /\ outcome' = "ok"
            \/ pc = "check_device_health" /\ outcome' = "ok"
            \/ /\ pc = "collect"
               /\ outcome' \in {"values", "empty"}
               /\ published'.result # "PublishError"
            \/ pc = "publish" /\ outcome' = "ok")
          => (/\ device_state' = CONNECTED
              /\ device_connected'
              /\ retry_count' = retry_count
              /\ calls' = calls
              /\ stateLog' = stateLog
              /\ pc' = (CASE pc = "idle_sleep" -> "check_device_health"
                          [] pc = "check_device_health" -> "collect"
                          [] pc = "collect" -> (IF outcome' = "values" THEN "publish"
                                                ELSE "idle_sleep")
                          [] pc = "publish" -> "idle_sleep"))]_vars

\* the second cycle ran health check, collect and publish on the connection
\* made in the first: one connect_device call and one event so far
C24_Witness ==
  /\ cycle = 2
  /\ pc = "idle_sleep"
  /\ awaited = "publish"
  /\ outcome = "ok"
  /\ device_state = CONNECTED
  /\ calls["connect_device"] = 1
  /\ calls["on_device_connected"] = 1
  /\ calls["on_device_disconnected"] = 0

\* C25: once DeviceState is Error, no step of the collection task changes
\* it to anything but Connecting or Reconnecting (set for a new connection
\* attempt): it stays Error until an attempt is made.
C25_ErrorUntilNewAttempt ==
  [][(device_state = ERROR /\ TaskStep /\ pc # "done" /\ device_state' # ERROR)
       => device_state' \in {CONNECTING, RECONNECTING}]_vars

\* ------------------------------------------------------------------------
\* Vocabulary of the backoff properties.
RECURSIVE Pow2(_)
Pow2(n) == IF n = 0 THEN 1 ELSE 2 * Pow2(n - 1)

\* min(base * 2^att, max_delay) for att >= 0; base * 2^MaxAttempt is above every
\* max_delay of MaxDelays, so the minimum is max_delay from there on
Unjittered(att) ==
  IF att <= MaxAttempt THEN Min(base * Pow2(att), max_delay) ELSE max_delay

\* next_delay was called
DelayCalled == delay.raised # "unset"

\* C26: with jitter = 0, for every attempt >= 0, next_delay(attempt) returns
\* min(base * 2^attempt, max_delay), so never more than max_delay even when
\* base > max_delay.
C26_UnjitteredDelay ==
  (DelayCalled /\ jitter = 0 /\ delay.attempt >= 0)
    => (delay.raised = "none" /\ delay.value = Unjittered(delay.attempt))

\* C27: with jitter = j > 0, for every attempt, next_delay(attempt) returns a
\* value in [max(0, u*(1-j)), min(max_delay, u*(1+j))], u being the unjittered
\* clamped delay; so a value that is neither negative nor above max_delay.
\* (jitter is in hundredths: both sides are multiplied by 100.)
C27_JitteredDelayInRange ==
  (DelayCalled /\ jitter > 0)
    => LET u == Unjittered(Max(delay.attempt, 0))
       IN /\ delay.raised = "none"
          /\ 100 * delay.value >= Max(0, u * (100 - jitter))
          /\ 100 * delay.value <= Min(100 * max_delay, u * (100 + jitter))
          /\ delay.value >= 0
          /\ delay.value <= max_delay

\* C28: for every negative attempt, next_delay(attempt) raises no error and,
\* with jitter = 0, returns the value next_delay(0) returns.
C28_NegativeAttemptIsZero ==
  (DelayCalled /\ delay.attempt < 0)
    => /\ delay.raised = "none"
       /\ jitter = 0 => delay.value = next_delay(0, 0).value

\* next_delay(-2) returned base, which next_delay(0) returns
C28_Witness ==
  /\ DelayCalled
  /\ delay.attempt = -2
  /\ jitter = 0
  /\ base < max_delay
  /\ delay = Returned(-2, base)

\* C29: in a connection episode the k-th retryable failure of connect_device,
\* k < max_retries, is followed by a backoff sleep of next_delay(k - 1), and the
\* failure number max_retries by none: every backoff sleep has an attempt index
\* k - 1 in 0..max_retries-2, k being the retryable connect failures since the
\* latest successful connect.
C29_BackoffAfterKthFailure ==
  /\ pc = "backoff_sleep"
       => /\ streak \in 1 .. (max_retries - 1)
          /\ delay.raised = "none"
          /\ delay.attempt = streak - 1
  /\ (awaited = "connect_device" /\ IsRetryable(outcome) /\ pc # "done")
       => IF streak < max_retries
          THEN pc = "backoff_sleep" /\ delay.attempt = streak - 1
          ELSE pc = "on_device_disconnected"

\* C30: while connect_device is being invoked DeviceState is Connecting if the
\* retry count is 0 and Reconnecting if it is above 0; so it is never invoked in
\* Disconnected, Connected or Error.
C30_StateAtConnect ==
  pc = "connect_device"
    => /\ device_state = (IF retry_count = 0 THEN CONNECTING ELSE RECONNECTING)
       /\ device_state \notin {DISCONNECTED, CONNECTED, ERROR}

\* connect_device invoked again after a failed attempt
C30_Witness ==
  /\ pc = "connect_device"
  /\ retry_count > 0
  /\ device_state = RECONNECTING
  /\ calls["connect_device"] = 2

\* the first invocation of connect_device
C30_WitnessFirst ==
  /\ pc = "connect_device"
  /\ retry_count = 0
  /\ device_state = CONNECTING
  /\ calls["connect_device"] = 1

\* C31: start() awaits the transport connect, then on_start, then creates the
\* task whose first cycle invokes connect_device: on_start is invoked only
\* after the transport connect returned, and no cycle begins before on_start
\* returned.  If the transport connect raises, on_start is not invoked, no
\* cycle runs and _running stays false.  stop() awaits the transport
\* disconnect only after on_stop was invoked.
C31_StartStopOrder ==
  /\ [](/\ mainpc = "client_connect" => (calls["on_start"] = 0 /\ cycle = 0 /\ pc = "none")
        /\ mainpc = "on_start" => (calls["on_start"] = 1 /\ cycle = 0 /\ pc = "none" /\ ~running)
        /\ calls["connect_device"] > 0 => (calls["on_start"] = 1 /\ mainpc \notin {"client_connect", "on_start"})
        /\ (mainpc = "raised" /\ calls["on_start"] = 0)
             => (~running /\ cycle = 0 /\ pc = "none" /\ calls["connect_device"] = 0)
        /\ stoppc \in {"client_disconnect", "done"} => calls["on_stop"] = 1)
  /\ [][(mainpc = "client_connect" /\ mainpc' = "raised")
          => (calls' = calls /\ ~running' /\ pc' = "none")]_vars

\* the first connect_device is awaited: the transport connect and on_start returned
C31_Witness ==
  /\ pc = "connect_device"
  /\ calls["connect_device"] = 1
  /\ mainpc = "await_task"
  /\ calls["on_start"] = 1

\* the transport connect raised
C31_WitnessConnectFailed ==
  /\ mainpc = "raised"
  /\ calls["on_start"] = 0
  /\ ~running

\* stop() of an adapter that had connected its device awaits the transport disconnect
C31_WitnessStop ==
  /\ stoppc = "client_disconnect"
  /\ calls["on_stop"] = 1
  /\ calls["connect_device"] > 0

\* C32: publish_asset_data fails distinguishably.  Called with the transport
\* not connected it raises PublishError and does not await the send; the send
\* is awaited only with the transport connected; and whatever the send
\* raises, publish_asset_data ends by returning or by raising PublishError,
\* never an error of another class.
C32_PublishFailsAsPublishError ==
  /\ (published.result # "unset" /\ ~published.connected)
       => (~published.sent /\ published.result = "PublishError")
  /\ pc = "publish" => published = Published(TRUE, TRUE, "pending")
  /\ published.result \in {"unset", "pending", "ok", "PublishError"}
  /\ (awaited = "publish" /\ outcome # "CancelledError") => outcome \in {"ok", "PublishError"}

\* the send raised, and publish_asset_data raised PublishError
C32_Witness ==
  /\ published = Published(TRUE, TRUE, "PublishError")
  /\ awaited = "publish"
  /\ outcome = "PublishError"
  /\ pc = "idle_sleep"

\* publish_asset_data was called with the transport not connected
C32_WitnessNotConnected ==
  /\ published = Published(FALSE, FALSE, "PublishError")
  /\ publishes = 1
  /\ pc = "idle_sleep"

\* C33: in every reachable state of the adapter, 0 <= retry count <= max_retries.
C33_RetryCountInRange == retry_count >= 0 /\ retry_count <= max_retries

\* C34: DeviceState is Disconnected and device_connected false initially, and
\* wherever the collection task is suspended (a hook or the transport is
\* awaited, or the task sleeps) device_connected is true if and only if
\* DeviceState is Connected, whatever the hooks do.
C34_ConnectedIffStateConnected ==
  /\ pc = "none" => (device_state = DISCONNECTED /\ ~device_connected)
  /\ pc \notin {"none", "done"} => (device_connected <=> device_state = CONNECTED)

\* C35: check_device_health and collect are awaited only while
\* device_connected is true and DeviceState is Connected.
C35_HealthAndCollectOnlyConnected ==
  pc \in {"check_device_health", "collect"}
    => (device_connected /\ device_state = CONNECTED)

\* C36: between two connect_device invocations that returned there is a
\* disconnect_device invocation: connect_device has returned at most once
\* more often than disconnect_device was invoked.
C36_DisconnectBetweenConnects == Successes <= calls["disconnect_device"] + 1

\* C37: when stop() runs while start() is pending, start() does not return
\* before stop() has finished its shutdown sequence (disconnect_device if
\* connected, on_stop, the transport disconnect): once start() has returned,
\* a stop() that was begun has ended.
C37_StartOutlastsStop ==
  (mainpc = "returned" /\ stoppc # "idle") => stoppc \in {"done", "raised"}

\* on_stop has been invoked by some stop() (one that awaited a task: a stop()
\* that returned at line 300 awaited none)
OnStopInvoked ==
  \E j \in Stops : /\ stops[j].awaits # 0
                    /\ stops[j].pc \in {"on_stop", "client_disconnect", "returned"}

\* no start() is on its way to a collection task and no collection task is left
NoLoopLeft == Starting = {} /\ \A k \in Starts : loops[k] \notin Alive

\* there is nothing for a stop request to shut down in an orderly way: no
\* collection task was ever created (every start() failed before line 290),
\* or one ended with an exception of its own
NothingToStop ==
  \/ \A k \in Starts : loops[k] = "none"
  \/ \E k \in Starts : loops[k] = "raised"

\* C38: a stop request made after start() was entered but before _running is
\* set (during the transport connect or on_start) eventually takes effect:
\* the collection loop ends and on_stop is invoked, unless start() failed or
\* the task crashed.
C38_StopTakesEffect ==
  \A j \in Stops :
    (stops[j].pc = "ignored") ~> (NoLoopLeft /\ (OnStopInvoked \/ NothingToStop))

\* C39: when disconnect_device raises during stop() the error is absorbed:
\* on_stop is invoked next and the transport disconnect after it, with
\* device_connected still true and DeviceState as it was; when it returns,
\* device_connected becomes false and DeviceState DISCONNECTED.
C39_StopAbsorbsDisconnectError ==
  [][/\ (stoppc = "disconnect_device" /\ stoppc' # stoppc)
          => /\ stoppc' = "on_stop"
             /\ calls'["on_stop"] = calls["on_stop"] + 1
             /\ stop_disconnect' \in {"returned", "raised"}
             /\ (stop_disconnect' = "raised")
                  => (device_connected' /\ device_state' = device_state)
             /\ (stop_disconnect' = "returned")
                  => (~device_connected' /\ device_state' = DISCONNECTED)
     /\ (stoppc = "on_stop" /\ stoppc' \notin {"on_stop", "raised"})
          => (stoppc' = "client_disconnect")
     /\ (stoppc \in {"on_stop", "client_disconnect"})
          => UNCHANGED <<device_connected, device_state, stop_disconnect>>]_vars

\* disconnect_device raised in stop(), and the transport disconnect was still
\* reached with the device flag set
C39_Witness ==
  /\ stoppc = "done"
  /\ stop_disconnect = "raised"
  /\ device_connected
  /\ device_state = CONNECTED
  /\ calls["on_stop"] = 1

\* disconnect_device returned in stop()
C39_WitnessReturned ==
  /\ stoppc = "done"
  /\ stop_disconnect = "returned"
  /\ ~device_connected
  /\ device_state = DISCONNECTED
====
